---- MODULE Spec2Model ----
(***************************************************************************)
(* Model of the MyMediaHub record store (src/mymediahub/database.py) and   *)
(* of the Media table it runs on (src/mymediahub/setup_database.py).       *)
(*                                                                         *)
(* Python values and SQLite storage values are tagged records.  Text is a  *)
(* sequence of one-character strings.  A float is an integer number of     *)
(* hundredths (7.25 is Float(725)).  The ratings used are multiples of     *)
(* 0.25: on such binary fractions the engine's floating point sums are     *)
(* exact, so AVG is the exact mean.                                        *)
(***************************************************************************)
EXTENDS Integers, Sequences, FiniteSets, TLC

(* ----------------------------- bounds --------------------------------- *)
\* number of INSERTs into Media a behaviour may perform
MaxSeq == 2
\* number of seconds that may pass between the first and the last INSERT
MaxClock == 1
\* items created in one user's store
MaxItems == 1
MaxRows == 3

(* --------------------------- Python values ---------------------------- *)
None == [t |-> "None"]
NaN == [t |-> "nan"]
Exception == [t |-> "Exception"]
Str(s) == [t |-> "str", s |-> s]
Float(r) == [t |-> "float", r |-> r]
PyInt(i) == [t |-> "int", i |-> i]
Bool(b) == [t |-> "bool", b |-> b]
List(l) == [t |-> "list", l |-> l]
\* the str read back from a date_added column
DateStr(n) == [t |-> "datestr", n |-> n]

IsNumber(a) == a.t \in {"float", "int"}
Hundredths(a) == IF a.t = "int" THEN 100 * a.i ELSE a.r

\* Equality of two field values as Python's containers test it (a is b or
\* a == b): numbers by value, so that 9 equals 9.0; anything else when it is
\* the same value.
PyEq(a, b) ==
    IF IsNumber(a) /\ IsNumber(b) THEN Hundredths(a) = Hundredths(b)
    ELSE a = b

(* ------------------------ SQLite storage values ------------------------ *)
NULL == [t |-> "NULL"]
TEXT(s) == [t |-> "TEXT", s |-> s]
REAL(r) == [t |-> "REAL", r |-> r]
INTEGER(i) == [t |-> "INTEGER", i |-> i]
\* a CURRENT_TIMESTAMP text 'YYYY-MM-DD HH:MM:SS', kept as its count of
\* seconds: the texts compare as the counts do
TIMESTAMP(n) == [t |-> "TIMESTAMP", n |-> n]

\* sqlite3 parameter binding: None is NULL, and a NaN float is bound as NULL.
Bind(v) ==
    CASE v.t = "None" -> NULL
      [] v.t = "nan" -> NULL
      [] v.t = "str" -> TEXT(v.s)
      [] v.t = "float" -> REAL(v.r)
      [] v.t = "int" -> INTEGER(v.i)

\* sqlite3.Row column value back to Python.
FromSql(v) ==
    CASE v.t = "NULL" -> None
      [] v.t = "TEXT" -> Str(v.s)
      [] v.t = "REAL" -> Float(v.r)
      [] v.t = "INTEGER" -> PyInt(v.i)
      [] v.t = "TIMESTAMP" -> DateStr(v.n)

\* SQL "a = b" in a WHERE clause: a comparison with NULL is never true.
SqlEq(a, b) ==
    IF a.t = "NULL" \/ b.t = "NULL" THEN FALSE
    ELSE IF a.t \in {"REAL", "INTEGER"} /\ b.t \in {"REAL", "INTEGER"}
         THEN (IF a.t = "INTEGER" THEN 100 * a.i ELSE a.r)
              = (IF b.t = "INTEGER" THEN 100 * b.i ELSE b.r)
    ELSE a = b

(* ------------------------------ schema -------------------------------- *)
\* the nine columns create_record and update_record write
MutableFields == {"title", "media_type", "genre", "release_date", "director",
                  "description", "rating", "status", "image_path"}

\* NOT NULL columns of CREATE TABLE Media
NotNullColumnsTitleOnly == {"title"}

NotNullColumns == {"title", "media_type"}

\* columns declared REAL; the other written columns are TEXT
RealColumns == {"rating"}

\* Column affinity applied when a value is stored: an integer stored in a
\* REAL column becomes a real; text and NULL are stored as they are.
Affinity(col, v) ==
    IF col \in RealColumns /\ v.t = "INTEGER" THEN REAL(100 * v.i) ELSE v

\* class Media
Media(id, title, media_type, genre, release_date, director, description, rating, status, image_path, date_added) ==
    [t |-> "Media", id |-> id, title |-> title, media_type |-> media_type, genre |-> genre,
     release_date |-> release_date, director |-> director,
     description |-> description, rating |-> rating, status |-> status,
     image_path |-> image_path, date_added |-> date_added]

\* the freshly created Media table of setup_media_database: no rows, and no
\* sqlite_sequence entry for the AUTOINCREMENT key yet
EmptyDb == [rows |-> {}, sqlite_sequence |-> 0]

Max(S) == CHOOSE x \in S : \A y \in S : y <= x

RowIds(d) == {r.id.i : r \in d.rows}

NextRowidMax(d) == Max(RowIds(d) \cup {0}) + 1

\* id INTEGER PRIMARY KEY AUTOINCREMENT: one more than the largest rowid the
\* table has ever held, which sqlite_sequence remembers
NextRowid(d) == Max(RowIds(d) \cup {d.sqlite_sequence}) + 1

\* the values an INSERT or UPDATE statement stores for the nine columns
StoredValues(media) ==
    [c \in MutableFields |-> Affinity(c, Bind(media[c]))]

ViolatesNotNull(vals) == \E c \in NotNullColumns : vals[c] = NULL

\* WHERE id = ?
RowsWithId(d, media_id) == {r \in d.rows : SqlEq(r.id, Bind(media_id))}

(* --------------------------- DatabaseModel ---------------------------- *)
row_to_media_swapped(row) ==
    Media(FromSql(row.id), FromSql(row.title), FromSql(row.media_type),
          FromSql(row.director), FromSql(row.release_date),
          FromSql(row.genre), FromSql(row.description),
          FromSql(row.rating), FromSql(row.status), FromSql(row.image_path),
          FromSql(row.date_added))

row_to_media(row) ==
    Media(FromSql(row.id), FromSql(row.title), FromSql(row.media_type),
          FromSql(row.genre), FromSql(row.release_date),
          FromSql(row.director), FromSql(row.description),
          FromSql(row.rating), FromSql(row.status), FromSql(row.image_path),
          FromSql(row.date_added))

get_record_at_least(d, media_id) ==
    LET found == {r \in d.rows : Bind(media_id).t = "INTEGER"
                                 /\ r.id.i >= Bind(media_id).i}
    IN IF found = {} THEN None
       ELSE row_to_media(CHOOSE r \in found :
                            \A q \in found : r.id.i <= q.id.i)

get_record(d, media_id) ==
    LET found == RowsWithId(d, media_id)
    IN IF found = {} THEN None ELSE row_to_media(CHOOSE r \in found : TRUE)

\* create_record that refuses a rating outside 0..10
create_record_rating_checked(d, media, ts) ==
    LET vals == StoredValues(media)
        newid == NextRowid(d)
        row == [c \in MutableFields \cup {"id", "date_added"} |->
                   IF c = "id" THEN INTEGER(newid)
                   ELSE IF c = "date_added" THEN TIMESTAMP(ts)
                   ELSE vals[c]]
    IN IF ViolatesNotNull(vals)
          \/ (IsNumber(media.rating) /\ Hundredths(media.rating) \notin 0..1000)
       THEN [db |-> d, val |-> Exception]
       ELSE [db |-> [rows |-> d.rows \cup {row}, sqlite_sequence |-> newid],
             val |-> PyInt(newid)]

\* Each writing operation yields the database it leaves and what the call
\* returns (Exception when the statement fails and the handler re-raises).
create_record(d, media, ts) ==
    LET vals == StoredValues(media)
        newid == NextRowid(d)
        row == [c \in MutableFields \cup {"id", "date_added"} |->
                   IF c = "id" THEN INTEGER(newid)
                   ELSE IF c = "date_added" THEN TIMESTAMP(ts)
                   ELSE vals[c]]
    IN IF ViolatesNotNull(vals)
       THEN [db |-> d, val |-> Exception]
       ELSE [db |-> [rows |-> d.rows \cup {row}, sqlite_sequence |-> newid],
             val |-> PyInt(newid)]

update_record_checks_first(d, media) ==
    LET vals == StoredValues(media)
        hit == RowsWithId(d, media.id)
        new(r) == [c \in DOMAIN r |-> IF c \in MutableFields THEN vals[c]
                                      ELSE r[c]]
    IN IF ViolatesNotNull(vals)
       THEN [db |-> d, val |-> Exception]
       ELSE [db |-> [d EXCEPT !.rows = (d.rows \ hit) \cup {new(r) : r \in hit}],
             val |-> Bool(hit # {})]

update_record_keeps_status(d, media) ==
    LET vals == StoredValues(media)
        hit == RowsWithId(d, media.id)
        new(r) == [c \in DOMAIN r |->
                      IF c \in MutableFields \ {"status"} THEN vals[c]
                      ELSE r[c]]
    IN IF hit # {} /\ ViolatesNotNull(vals)
       THEN [db |-> d, val |-> Exception]
       ELSE [db |-> [d EXCEPT !.rows = (d.rows \ hit) \cup {new(r) : r \in hit}],
             val |-> Bool(hit # {})]

\* The NOT NULL constraints are checked for each row the UPDATE rewrites, so
\* an UPDATE that matches no row never fails.
update_record(d, media) ==
    LET vals == StoredValues(media)
        hit == RowsWithId(d, media.id)
        new(r) == [c \in DOMAIN r |-> IF c \in MutableFields THEN vals[c]
                                      ELSE r[c]]
    IN IF hit # {} /\ ViolatesNotNull(vals)
       THEN [db |-> d, val |-> Exception]
       ELSE [db |-> [d EXCEPT !.rows = (d.rows \ hit) \cup {new(r) : r \in hit}],
             val |-> Bool(hit # {})]

delete_record_always_true(d, media_id) ==
    LET hit == RowsWithId(d, media_id)
    IN [db |-> [d EXCEPT !.rows = d.rows \ hit], val |-> Bool(TRUE)]

delete_record(d, media_id) ==
    LET hit == RowsWithId(d, media_id)
    IN [db |-> [d EXCEPT !.rows = d.rows \ hit], val |-> Bool(hit # {})]

(* ------------------------------ ordering ------------------------------ *)
\* the characters texts are made of, with their code points: the default
\* BINARY collation compares text by code point
CodePoint(c) ==
    CASE c = " " -> 32 [] c = "%" -> 37 [] c = "/" -> 47 [] c = "A" -> 65 [] c = "B" -> 66
      [] c = "_" -> 95 [] c = "a" -> 97 [] c = "b" -> 98

RECURSIVE TextLE(_, _)
TextLE(x, y) ==
    IF x = <<>> THEN TRUE
    ELSE IF y = <<>> THEN FALSE
    ELSE IF Head(x) = Head(y) THEN TextLE(Tail(x), Tail(y))
    ELSE CodePoint(Head(x)) < CodePoint(Head(y))

\* The lists a SELECT ... ORDER BY may return for a set of rows: every
\* arrangement of the rows that respects the order; SQL leaves the order of
\* rows with equal keys open.  before is the set of pairs <<r, q>> of rows
\* such that r may come right before q.
Ordered(S, before) ==
    {l \in [1..Cardinality(S) -> S] :
        /\ \A i, j \in 1..Cardinality(S) : i # j => l[i] # l[j]
        /\ \A i \in 1..(Cardinality(S) - 1) : <<l[i], l[i + 1]>> \in before}

\* ORDER BY date_added ASC
DateAsc(r, q) == r.date_added.n <= q.date_added.n

\* ORDER BY date_added DESC
DateDesc(r, q) == r.date_added.n >= q.date_added.n

\* ORDER BY title ASC
TitleAsc(r, q) == TextLE(r.title.s, q.title.s)

MediaList(l) == List([i \in 1..Len(l) |-> row_to_media(l[i])])

(* ------------------------- DatabaseModel queries ---------------------- *)
\* the lists get_all_records may return
get_all_records(d) == {MediaList(l) : l \in Ordered(d.rows, {p \in d.rows \X d.rows : DateDesc(p[1], p[2])})}

\* LIKE folds the case of ASCII letters only
Lower(c) == IF c = "A" THEN "a" ELSE IF c = "B" THEN "b" ELSE c

\* text LIKE pattern: % matches any run of characters, _ any one character,
\* any other character itself without regard to ASCII case
RECURSIVE Like(_, _)
Like(pattern, text) ==
    IF pattern = <<>> THEN text = <<>>
    ELSE IF Head(pattern) = "%"
         THEN Like(Tail(pattern), text)
              \/ (text # <<>> /\ Like(pattern, Tail(text)))
    ELSE IF text = <<>> THEN FALSE
    ELSE IF Head(pattern) = "_" THEN Like(Tail(pattern), Tail(text))
    ELSE Lower(Head(pattern)) = Lower(Head(text))
         /\ Like(Tail(pattern), Tail(text))

\* the lists search_by_title may return; title is a str
search_by_title(d, title) ==
    LET pattern == <<"%">> \o title.s \o <<"%">>
        found == {r \in d.rows : r.title.t = "TEXT" /\ Like(pattern, r.title.s)}
    IN {MediaList(l) :
           l \in Ordered(found, {p \in found \X found : TitleAsc(p[1], p[2])})}

\* the lists filter_by_type may return: WHERE media_type = ? ORDER BY
\* title ASC; media_type is a str
filter_by_type(d, media_type) ==
    LET found == {r \in d.rows : SqlEq(r.media_type, Bind(media_type))}
    IN {MediaList(l) :
           l \in Ordered(found, {p \in found \X found : TitleAsc(p[1], p[2])})}

\* WHERE media_type = ? in the place of WHERE status = ?
filter_by_status_on_type(d, status) ==
    LET found == {r \in d.rows : SqlEq(r.media_type, Bind(status))}
    IN {MediaList(l) :
           l \in Ordered(found, {p \in found \X found : TitleAsc(p[1], p[2])})}

\* the lists filter_by_status may return: WHERE status = ? ORDER BY title
\* ASC; status is a str
filter_by_status(d, status) ==
    LET found == {r \in d.rows : SqlEq(r.status, Bind(status))}
    IN {MediaList(l) :
           l \in Ordered(found, {p \in found \X found : TitleAsc(p[1], p[2])})}

\* SELECT DISTINCT col FROM Media, then SELECT COUNT(*) ... WHERE col = ? for
\* each value read, collected in a dict keyed by the value
Breakdown(d, col) ==
    LET keys == {FromSql(r[col]) : r \in d.rows}
    IN [k \in keys |-> Cardinality({r \in d.rows : SqlEq(r[col], Bind(k))})]

RECURSIVE SumRatings(_)
SumRatings(S) ==
    IF S = {} THEN 0
    ELSE LET r == CHOOSE x \in S : TRUE IN r.rating.r + SumRatings(S \ {r})

\* round(x, 1) for x = num / den hundredths, den > 0: the nearest tenth, a
\* tie going to the even tenth; the result is in hundredths again
Round1(num, den) ==
    LET lo == num \div (10 * den)
        rest == num - lo * 10 * den
    IN IF 2 * rest < 10 * den THEN 10 * lo
       ELSE IF 2 * rest > 10 * den THEN 10 * (lo + 1)
       ELSE IF lo % 2 = 0 THEN 10 * lo ELSE 10 * (lo + 1)

\* the rows AVG(rating) ... WHERE rating IS NOT NULL runs over
RatedRows(d) == {r \in d.rows : r.rating.t # "NULL"}

AverageRatingCountsNull(d) ==
    LET rated == RatedRows(d)
        total == SumRatings(rated)
    IN IF rated = {} \/ total = 0 THEN PyInt(0)
       ELSE Float(Round1(total, Cardinality(d.rows)))

\* AVG is NULL over no rows; round(avg_rating, 1) if avg_rating else 0
AverageRating(d) ==
    LET rated == RatedRows(d)
        total == SumRatings(rated)
    IN IF rated = {} \/ total = 0 THEN PyInt(0)
       ELSE Float(Round1(total, Cardinality(rated)))

get_statistics(d) ==
    [total_items |-> PyInt(Cardinality(d.rows)),
     type_breakdown |-> Breakdown(d, "media_type"),
     status_breakdown |-> Breakdown(d, "status"),
     average_rating |-> AverageRating(d)]

(* --------------------- the Users table of users.db -------------------- *)
\* id and created_at are left out: no statement of the program reads
\* them.  nth stands for what the id does, telling apart the rows that hold
\* the same username: the nth row with that username.

EmptyUsers == [rows |-> {}]

\* users.db as sqlite3.connect creates it: a database with no table
NoUsersTable == [t |-> "no such table: Users"]

\* setup_users_database: CREATE TABLE IF NOT EXISTS Users
setup_users_database(reg) == IF reg = NoUsersTable THEN EmptyUsers ELSE reg

\* no file on disk
NoFiles == [name \in {} |-> EmptyDb]

\* a database file sqlite3.connect has created, with no table in it
NoTable == [t |-> "no such table: Media"]

HasTable(file) == file # NoTable

\* sqlite3.connect(name) where the file can be opened
connect(fs, name) ==
    IF name \in DOMAIN fs THEN fs
    ELSE [n \in DOMAIN fs \cup {name} |-> IF n = name THEN NoTable ELSE fs[n]]

\* str(x) as an f-string places it
Format(x) == IF x.t = "None" THEN <<"N", "o", "n", "e">> ELSE x.s

\* f"media_library_{username}.db" of setup_media_database
SetupDbName(username) == <<"media_library_">> \o Format(username) \o <<".db">>

\* f"media_{username}.db" in the place of f"media_library_{username}.db"
AppDbNameShort(username) == <<"media_">> \o Format(username) \o <<".db">>

\* f"media_library_{username}.db" of MainApplication.__init__
AppDbName(username) == <<"media_library_">> \o Format(username) \o <<".db">>

\* sqlite3.connect(name) opens the file, creating it when it is missing; it
\* raises OperationalError (unable to open database file) when the name
\* lies in a directory that does not exist, and the program makes no
\* directory.  File names are compared character by character.
CanOpen(name) == \A i \in 1..Len(name) : name[i] # "/"

\* no UNIQUE constraint on username
UsernameTakenNever(reg, bound) == FALSE

\* the UNIQUE constraint on username, under the BINARY collation
UsernameTaken(reg, bound) == \E r \in reg.rows : r.username = bound

\* setup_media_database that creates nothing
setup_media_database_nothing(fs, username) == fs

\* setup_media_database(username) where the file can be opened: CREATE
\* TABLE IF NOT EXISTS Media in the file of that name
setup_media_database(fs, username) ==
    LET db_name == SetupDbName(username)
    IN IF db_name \in DOMAIN fs THEN fs
       ELSE [name \in DOMAIN fs \cup {db_name} |->
                IF name = db_name THEN EmptyDb ELSE fs[name]]

UserResult(reg, fs, val, fault) == [registry |-> reg, files |-> fs, val |-> val, fault |-> fault]

\* create_user: the INSERT is committed before the store is provisioned;
\* IntegrityError (NOT NULL as well as UNIQUE) is answered with False, any
\* other sqlite3.Error with an Exception
create_user(reg, fs, username) ==
    LET bound == Bind(username)
        same == {r \in reg.rows : r.username = bound}
        inserted == [rows |-> reg.rows \cup {[username |-> bound, nth |-> Cardinality(same) + 1]}]
    IN IF reg = NoUsersTable
       THEN UserResult(reg, fs, Exception, "operational")
       ELSE IF bound = NULL THEN UserResult(reg, fs, Bool(FALSE), "notnull")
       ELSE IF UsernameTaken(reg, bound)
            THEN UserResult(reg, fs, Bool(FALSE), "unique")
       ELSE IF ~CanOpen(SetupDbName(username))
            THEN UserResult(inserted, fs, Exception, "operational")
       ELSE UserResult(inserted, setup_media_database(fs, username),
                       Bool(TRUE), "none")

\* ORDER BY username ASC
UsernameAsc(r, q) == TextLE(r.username.s, q.username.s)

\* the lists get_all_users may return, or the Exception it raises when
\* the SELECT fails
get_all_users(reg) ==
    IF reg = NoUsersTable THEN {Exception}
    ELSE
    {List([i \in 1..Len(l) |-> FromSql(l[i].username)]) :
        l \in Ordered(reg.rows, {p \in reg.rows \X reg.rows : UsernameAsc(p[1], p[2])})}

(* ------------------------- the main application ----------------------- *)
\* screen: what the root window shows; user: the username MainApplication
\* was started with; connection: the connection of its DatabaseModel;
\* opened: how many connections that DatabaseModel has opened;
\* at_destroy: the state of the connection when the root window was
\* destroyed; managers: how many UserManager connections are open
App(screen, user, connection, opened, at_destroy, managers) == [screen |-> screen, user |-> user, connection |-> connection, opened |-> opened, at_destroy |-> at_destroy, managers |-> managers]

\* UserSelectionScreen.__init__: a new UserManager, which connects; the
\* one the screen held before is dropped as it is
UserSelectionScreenInit(a) == [a EXCEPT !.managers = a.managers + 1]

\* UserManager.close on the manager the screen holds
user_manager_close(a) == [a EXCEPT !.managers = a.managers - 1]

\* main(): the selection screen, no DatabaseModel yet
Started == UserSelectionScreenInit(App("selection", None, "none", 0, "none", 0))

\* DatabaseModel.__init__: connect() is called once
DatabaseModelInit(a, username) == [a EXCEPT !.screen = "main", !.user = username, !.connection = "open", !.opened = a.opened + 1]

\* DatabaseModel.close
close(a) == IF a.connection = "open" THEN [a EXCEPT !.connection = "closed"] ELSE a

\* root.destroy()
destroy(a) == [a EXCEPT !.screen = "closed", !.at_destroy = a.connection]

\* root.destroy() before db_model.close()
on_closing_destroy_first(a) == close(destroy(a))

\* MainApplication._on_closing: db_model.close(), then root.destroy()
on_closing(a) == destroy(close(a))

(* --------------------------- Python on text --------------------------- *)
\* str.strip(), on texts whose only whitespace is the space
RECURSIVE LStrip(_)
LStrip(x) == IF x # <<>> /\ Head(x) = " " THEN LStrip(Tail(x)) ELSE x

RECURSIVE RStrip(_)
RStrip(x) ==
    IF x # <<>> /\ x[Len(x)] = " " THEN RStrip(SubSeq(x, 1, Len(x) - 1)) ELSE x

Strip(x) == RStrip(LStrip(x))

\* str.split(): the words between runs of spaces
RECURSIVE Split(_)
Split(x) ==
    LET y == LStrip(x)
        ends == {i \in 1..Len(y) : y[i] = " "}
        stop == IF ends = {} THEN Len(y) + 1
                ELSE CHOOSE i \in ends : \A j \in ends : i <= j
    IN IF y = <<>> THEN <<>>
       ELSE <<SubSeq(y, 1, stop - 1)>> \o Split(SubSeq(y, stop, Len(y)))

\* str.rstrip(',')
RECURSIVE RStripComma(_)
RStripComma(x) ==
    IF x # <<>> /\ x[Len(x)] = "," THEN RStripComma(SubSeq(x, 1, Len(x) - 1))
    ELSE x

\* str.lower()
PyLower(x) == [i \in 1..Len(x) |-> Lower(x[i])]

\* sub in text
RECURSIVE In(_, _)
In(sub, text) ==
    IF Len(sub) > Len(text) THEN FALSE
    ELSE SubSeq(text, 1, Len(sub)) = sub \/ In(sub, Tail(text))

\* the truth value an if statement gives a value
Truthy(v) ==
    CASE v.t = "None" -> FALSE
      [] v.t = "str" -> v.s # <<>>
      [] v.t \in {"float", "int"} -> Hundredths(v) # 0
      [] OTHER -> TRUE

Digits == <<"0", "1", "2", "3", "4", "5", "6", "7", "8", "9">>

AllDigits(x) == x # <<>> /\ \A i \in 1..Len(x) : \E d \in 1..10 : Digits[d] = x[i]

RECURSIVE Natural(_)
Natural(x) ==
    IF x = <<>> THEN 0
    ELSE 10 * Natural(SubSeq(x, 1, Len(x) - 1)) + (CHOOSE d \in 1..10 : Digits[d] = x[Len(x)]) - 1

ValueError == [t |-> "ValueError"]

\* float(text) for the texts a rating field is given here: an optional
\* sign, digits, and optionally a point and one or two digits; "nan";
\* anything else raises ValueError
ParseFloat(text) ==
    LET negative == text # <<>> /\ Head(text) = "-"
        body == IF negative THEN Tail(text) ELSE text
        sign == IF negative THEN 0 - 1 ELSE 1
        dots == {i \in 1..Len(body) : body[i] = "."}
        dot == CHOOSE i \in dots : TRUE
        whole == SubSeq(body, 1, dot - 1)
        frac == SubSeq(body, dot + 1, Len(body))
    IN IF body = <<"n", "a", "n">> THEN NaN
       ELSE IF dots = {}
            THEN (IF AllDigits(body) THEN Float(sign * 100 * Natural(body))
                  ELSE ValueError)
       ELSE IF Cardinality(dots) = 1 /\ AllDigits(whole) /\ AllDigits(frac) /\ Len(frac) <= 2
            THEN Float(sign * (100 * Natural(whole)
                               + (IF Len(frac) = 1 THEN 10 * Natural(frac)
                                  ELSE Natural(frac))))
       ELSE ValueError

RECURSIVE DigitsOf(_)
DigitsOf(n) ==
    IF n < 10 THEN <<Digits[n + 1]>>
    ELSE DigitsOf(n \div 10) \o <<Digits[(n % 10) + 1]>>

\* str(x) of a float that is not negative: the shortest text that reads
\* back as x, with one digit after the point at least
FloatStr(v) ==
    LET h == Hundredths(v)
    IN DigitsOf(h \div 100) \o <<".">>
       \o (IF h % 10 = 0 THEN <<Digits[((h % 100) \div 10) + 1]>>
           ELSE <<Digits[((h % 100) \div 10) + 1], Digits[(h % 10) + 1]>>)

(* ------------------------- the add / edit form ------------------------ *)
\* the texts of the widgets of AddEditWindow, and its image_path
Form(title, media_type, genre, month, day, year, director, rating, status, description, image_path) == [title |-> title, media_type |-> media_type, genre |-> genre, month |-> month, day |-> day, year |-> year, director |-> director, rating |-> rating, status |-> status, description |-> description, image_path |-> image_path]

\* What the rating Spinbox shows when the form is built.  The StringVar is
\* made empty and handed to tk.Spinbox(from_=0, to=10, increment=0.5):
\* Tk's Spinbox either leaves the text empty or replaces a text that does
\* not read as a number by the from value in the format of the increment.
SpinboxTexts == {<<>>, <<"0", ".", "0">>}

\* _populate_fields
populate_fields(form, media) ==
    LET parts == Split(media.release_date.s)
        dated == Truthy(media.release_date) /\ Len(parts) >= 3
    IN [form EXCEPT
           !.title = media.title.s,
           !.media_type = media.media_type.s,
           !.genre = media.genre.s,
           !.month = IF dated THEN parts[1] ELSE @,
           !.day = IF dated THEN RStripComma(parts[2]) ELSE @,
           !.year = IF dated THEN parts[3] ELSE @,
           !.director = media.director.s,
           !.rating = IF Truthy(media.rating) THEN FloatStr(media.rating) ELSE @,
           !.status = media.status.s,
           !.description = IF Truthy(media.description) THEN media.description.s ELSE @]

\* AddEditWindow.__init__: the form as the window shows it once it is
\* open, built by _create_widgets and filled by _populate_fields
OpenForm(media, spin) ==
    LET form == Form(<<>>, <<>>, <<>>, <<>>, <<>>, <<>>, <<>>, spin, <<>>, <<>>,
                     IF media = None THEN <<>> ELSE media.image_path.s)
    IN IF media = None THEN form ELSE populate_fields(form, media)

Rejected(message) == [t |-> "rejected", message |-> message]


\* _save without the test of the rating's range
save_any_rating(form, media) ==
    LET title == Strip(form.title)
        release_date == IF form.month # <<>> /\ form.day # <<>> /\ form.year # <<>>
                        THEN form.month \o <<" ">> \o form.day \o <<",", " ">> \o form.year
                        ELSE <<>>
        rating == IF form.rating = <<>> THEN None ELSE ParseFloat(form.rating)
    IN IF title = <<>> \/ form.media_type = <<>> \/ form.status = <<>>
       THEN Rejected("Please fill in all required fields (*)")
       ELSE IF rating = ValueError THEN Rejected("Invalid rating value")
       ELSE Media(IF media = None THEN None ELSE media.id, Str(title),
                  Str(form.media_type), Str(form.genre), Str(release_date),
                  Str(Strip(form.director)), Str(Strip(form.description)),
                  rating, Str(form.status), Str(form.image_path), Str(<<>>))

\* _save up to its callback: the message it shows when it returns early,
\* or else the Media it hands to the callback
save(form, media) ==
    LET title == Strip(form.title)
        release_date == IF form.month # <<>> /\ form.day # <<>> /\ form.year # <<>>
                        THEN form.month \o <<" ">> \o form.day \o <<",", " ">> \o form.year
                        ELSE <<>>
        rating == IF form.rating = <<>> THEN None ELSE ParseFloat(form.rating)
    IN IF title = <<>> \/ form.media_type = <<>> \/ form.status = <<>>
       THEN Rejected("Please fill in all required fields (*)")
       ELSE IF rating = ValueError THEN Rejected("Invalid rating value")
       ELSE IF rating # None /\ ~(rating.t = "float" /\ 0 <= rating.r /\ rating.r <= 1000)
            THEN Rejected("Rating must be between 0 and 10")
       ELSE Media(IF media = None THEN None ELSE media.id, Str(title),
                  Str(form.media_type), Str(form.genre), Str(release_date),
                  Str(Strip(form.director)), Str(Strip(form.description)),
                  rating, Str(form.status), Str(form.image_path), Str(<<>>))

(* --------------------------- the main window -------------------------- *)
\* current_media_list; rows: the items the rows of the treeview were made
\* of, in their order; the texts of the search box and of the two filters
All == <<"A", "l", "l">>

\* _create_widgets: nothing listed, no search text, both filters on All
NewWindow == [t |-> "window", current_media_list |-> List(<<>>), rows |-> <<>>, search |-> <<>>, filter_type |-> All, filter_status |-> All]

\* the search criterion comparing with the title as it is spelled
by_search_same_case(list, w) ==
    LET search_term == PyLower(Strip(w.search))
    IN IF search_term # <<>>
       THEN SelectSeq(list, LAMBDA m : In(search_term, m.title.s))
       ELSE list

\* the three criteria of _apply_filters
by_search(list, w) ==
    LET search_term == PyLower(Strip(w.search))
    IN IF search_term # <<>>
       THEN SelectSeq(list, LAMBDA m : In(search_term, PyLower(m.title.s)))
       ELSE list

by_type(list, w) ==
    IF w.filter_type # All
    THEN SelectSeq(list, LAMBDA m : m.media_type = Str(w.filter_type))
    ELSE list

by_status(list, w) ==
    IF w.filter_status # All
    THEN SelectSeq(list, LAMBDA m : m.status = Str(w.filter_status))
    ELSE list

\* _apply_filters, _refresh_treeview included
apply_filters(w) ==
    [w EXCEPT !.rows = by_status(by_type(by_search(w.current_media_list.l, w), w), w)]

\* on_save and _delete_media without the call of _load_media
load_media_never(w, d) == {w}

\* _load_media when get_all_records answers: the windows it may leave;
\* _refresh_treeview is given the whole list
load_media(w, d) ==
    {[w EXCEPT !.current_media_list = l, !.rows = l.l] : l \in get_all_records(d)}

\* _clear_filters up to its _load_media: writing the search text runs
\* _apply_filters through the trace, the two filters are set after it
clear_filters(w) ==
    [apply_filters([w EXCEPT !.search = <<>>]) EXCEPT !.filter_type = All, !.filter_status = All]

(* ------------------------------- inputs ------------------------------- *)
Empty == Str(<<>>)
Book == Str(<<"B">>)
Film == Str(<<"F">>)
ToRead == Str(<<"T">>)
Completed == Str(<<"C">>)

\* Media objects: the dataclass defaults with the two required fields set;
\* every field set to a value of its own, with an int rating; every optional
\* field absent (None); a title with a LIKE wildcard; a NaN rating; an
\* absent title; an absent media_type.
Defaults == Media(None, Str(<<"A", "b">>), Book, Empty, Empty, Empty, Empty, None, ToRead, Empty, Empty)
AllSet == Media(None, Str(<<"a", "B">>), Film, Str(<<"g">>), Str(<<"r">>), Str(<<"d">>), Str(<<"e">>), PyInt(7), Completed, Str(<<"i">>), Empty)
AllAbsent == Media(None, Str(<<"b">>), Book, None, None, None, None, Float(0), None, None, Empty)
NanRated == Media(None, Str(<<"a", "_">>), Book, Empty, Empty, Empty, Empty, NaN, Completed, Empty, Empty)
NoTitle == Media(None, None, Book, Empty, Empty, Empty, Empty, None, ToRead, Empty, Empty)
NoType == Media(None, Str(<<"b">>), None, Empty, Empty, Empty, Empty, None, ToRead, Empty, Empty)

\* the Media objects handed to create_record
MediaInputs ==
    {Defaults, AllSet, AllAbsent, NanRated, NoTitle, NoType,
     Media(None, Str(<<"A", "%">>), Film, Empty, Empty, Empty, Empty, Float(725), ToRead, Empty, Empty)}

\* the Media objects handed to update_record, each with every identifier
UpdateInputs == {AllSet, AllAbsent, NanRated, NoTitle}

\* identifiers handed to get_record, delete_record and update_record
IdInputs == {None} \cup {PyInt(i) : i \in 1..MaxSeq}

\* strings handed to search_by_title
SearchInputs == {Str(<<"A", "B">>), Str(<<"%">>), Str(<<"_">>)}

\* usernames handed to create_user: two that differ by case only, one whose
\* store file lies in a directory that does not exist, and an absent one
Alice == Str(<<"a">>)
AliceUpper == Str(<<"A">>)
UsernameInputs == {Alice, AliceUpper, Str(<<"/">>), None}

\* the Media objects handed to create_record and to update_record of the
\* main application's store, and the identifiers handed to update_record
\* and delete_record
AppCreateInputs == {Defaults, NoTitle}
AppUpdateInputs == {AllSet}
AppIdInputs == {PyInt(i) : i \in 1..MaxItems}

\* Media objects no form of the application would save: an empty title and
\* media_type, a rating above 10 and a status outside STATUSES; a media_type
\* outside MEDIA_TYPES, a rating below 0 and an empty status
Unvalidated == Media(None, Empty, Empty, Empty, Empty, Empty, Empty, Float(1100), Str(<<"b">>), Empty, Empty)
UnvalidatedInputs ==
    {Unvalidated, NoTitle, NoType,
     Media(None, Str(<<"b">>), Str(<<"b">>), Empty, Empty, Empty, Empty, Float(0 - 50), Empty, Empty, Empty)}

\* forms as the user has filled them in before Save: two that pass (a
\* title to strip, no date and no rating; every field set and the rating
\* 0.0) and four that do not
PlainForm == Form(<<" ", "A", "b", " ">>, Book.s, <<>>, <<>>, <<>>, <<>>, <<>>, <<>>, ToRead.s, <<>>, <<>>)
ZeroForm == Form(<<"b">>, Film.s, <<"g">>, <<"M">>, <<"1">>, <<"2">>, <<" ", "d">>, <<"0", ".", "0">>, Completed.s, <<"e", " ">>, <<"i">>)
FormInputs ==
    {PlainForm, ZeroForm,
     [PlainForm EXCEPT !.title = <<" ", " ">>],
     [PlainForm EXCEPT !.rating = <<"1", "0", ".", "5">>],
     [PlainForm EXCEPT !.rating = <<"x">>],
     [PlainForm EXCEPT !.rating = <<"n", "a", "n">>]}

\* what the user does in an edit form before Save: nothing, or typing
\* the rating 0.0
EditInputs == {"nothing", "rating"}

Edited(form, edit) ==
    IF edit = "nothing" THEN form
    ELSE [form EXCEPT !.rating = <<"0", ".", "0">>]

\* texts typed into the search box, choices of the two filters
SearchTexts == {<<>>, <<"A", " ">>}
TypeChoices == {All, Book.s}
StatusChoices == {All, ToRead.s}

\* how the get_all_records of _load_media ends: it answers, or it raises
\* and _load_media shows its error box
UiOutcomes == {"ok", "reload fails"}

\* media types handed to filter_by_type, statuses handed to filter_by_status
TypeInputs == {Book, Film}
StatusInputs == {ToRead, Completed}

(* ------------------------------- state -------------------------------- *)
\* the connection has no transaction open
NoTxn == [t |-> "no transaction"]

\* no main window is shown
NoWindow == [t |-> "no window"]

\* the grouped-report script has not been started
NotRun == [t |-> "not run"]

VARIABLES
    db,     \* the Media table of the store's database file
    now,    \* the second CURRENT_TIMESTAMP gave when it was last read
    ret,    \* the last call: its name, its argument, what it returned
    issued, \* history: the identifiers create_record has returned, in order
    registry, \* the Users table of users.db
    files,  \* the store files on disk: file name -> its Media table
    app,    \* the root window and the main application's DatabaseModel
    fault,  \* the kind of sqlite3.Error the last call's statement raised
    txn,    \* the store as the connection sees it while changes are uncommitted
    ui,     \* the main window: its list, its controls and its rows
    script  \* the grouped-report script: its rows, its position, its output

vars == <<db, now, ret, issued, registry, files, app, fault, txn, ui, script>>

Call(op, arg, val) == [op |-> op, arg |-> arg, val |-> val]

Init ==
    /\ db = EmptyDb
    /\ now = 0
    /\ ret = Call("init", None, None)
    /\ issued = <<>>
    /\ registry = EmptyUsers
    /\ files = NoFiles
    /\ app = Started
    /\ fault = "none"
    /\ txn = NoTxn
    /\ ui = NoWindow
    /\ script = NotRun

\* the kind of sqlite3.Error behind the outcome of a store statement: the
\* only one the Media table can raise by itself is the NOT NULL violation
FaultOf(val) == IF val = Exception THEN "notnull" ELSE "none"

\* The INSERT reads the clock for the DEFAULT of date_added: the clock never
\* runs backwards, and any number of seconds may have passed since it was
\* last read.
CreateRecord(media) ==
    /\ db.sqlite_sequence < MaxSeq
    /\ \E ts \in now..MaxClock :
          LET r == create_record(db, media, ts)
          IN /\ db' = r.db
             /\ ret' = Call("create_record", media, r.val)
             /\ issued' = IF r.val.t = "int" THEN Append(issued, r.val.i)
                          ELSE issued
             /\ now' = IF r.val.t = "int" THEN ts ELSE now
             /\ fault' = FaultOf(r.val)
    /\ UNCHANGED <<registry, files, app, txn, ui, script>>

UpdateRecord(media) ==
    /\ LET r == update_record(db, media)
       IN /\ db' = r.db
          /\ ret' = Call("update_record", media, r.val)
          /\ fault' = FaultOf(r.val)
    /\ UNCHANGED <<now, issued, registry, files, app, txn, ui, script>>

DeleteRecord(media_id) ==
    /\ LET r == delete_record(db, media_id)
       IN /\ db' = r.db
          /\ ret' = Call("delete_record", media_id, r.val)
          /\ fault' = "none"
    /\ UNCHANGED <<now, issued, registry, files, app, txn, ui, script>>

GetRecord(media_id) ==
    /\ ret' = Call("get_record", media_id, get_record(db, media_id))
    /\ fault' = "none"
    /\ UNCHANGED <<db, now, issued, registry, files, app, txn, ui, script>>

GetAllRecords ==
    /\ \E l \in get_all_records(db) : ret' = Call("get_all_records", None, l)
    /\ fault' = "none"
    /\ UNCHANGED <<db, now, issued, registry, files, app, txn, ui, script>>

SearchByTitle(title) ==
    /\ \E l \in search_by_title(db, title) :
          ret' = Call("search_by_title", title, l)
    /\ fault' = "none"
    /\ UNCHANGED <<db, now, issued, registry, files, app, txn, ui, script>>

FilterByType(media_type) ==
    /\ \E l \in filter_by_type(db, media_type) :
          ret' = Call("filter_by_type", media_type, l)
    /\ fault' = "none"
    /\ UNCHANGED <<db, now, issued, registry, files, app, txn, ui, script>>

FilterByStatus(status) ==
    /\ \E l \in filter_by_status(db, status) :
          ret' = Call("filter_by_status", status, l)
    /\ fault' = "none"
    /\ UNCHANGED <<db, now, issued, registry, files, app, txn, ui, script>>

GetStatistics ==
    /\ ret' = Call("get_statistics", None, get_statistics(db))
    /\ fault' = "none"
    /\ UNCHANGED <<db, now, issued, registry, files, app, txn, ui, script>>

Next ==
    \/ \E m \in MediaInputs : CreateRecord(m)
    \/ \E m \in UpdateInputs, i \in IdInputs : UpdateRecord([m EXCEPT !.id = i])
    \/ \E i \in IdInputs : DeleteRecord(i)
    \/ \E i \in IdInputs : GetRecord(i)
    \/ GetAllRecords
    \/ \E s \in SearchInputs : SearchByTitle(s)
    \/ \E t \in TypeInputs : FilterByType(t)
    \/ \E s \in StatusInputs : FilterByStatus(s)
    \/ GetStatistics

Spec == Init /\ [][Next]_vars

\* the Record Store called directly, past the forms of the application
NextUnvalidated ==
    \/ \E m \in UnvalidatedInputs : CreateRecord(m)
    \/ \E i \in IdInputs : GetRecord(i)
    \/ \E i \in IdInputs : DeleteRecord(i)

SpecUnvalidated == Init /\ [][NextUnvalidated]_vars

(* ------------------- statements and commits that fail ----------------- *)
\* the store as the statements of the connection see it
View(d, t) == IF t = NoTxn THEN d ELSE t

\* How execute and commit of a writing operation end.  The statement may
\* fail; the commit may fail and leave the transaction open (database is
\* locked: another connection is reading the file) or fail after SQLite
\* has rolled the transaction back (disk full, I/O error).  No handler
\* calls rollback.
Outcomes == {"ok", "statement fails", "commit fails", "commit rolled back"}

\* a writing operation that yields r on what the connection sees
Written(op, arg, r, outcome) ==
    IF r.val = Exception \/ outcome = "statement fails"
    THEN /\ ret' = Call(op, arg, Exception)
         /\ fault' = IF r.val = Exception THEN "notnull" ELSE "operational"
         /\ UNCHANGED <<db, txn>>
    ELSE IF outcome = "commit fails"
    THEN /\ ret' = Call(op, arg, Exception)
         /\ fault' = "operational"
         /\ txn' = r.db
         /\ UNCHANGED db
    ELSE IF outcome = "commit rolled back"
    THEN /\ ret' = Call(op, arg, Exception)
         /\ fault' = "operational"
         /\ txn' = NoTxn
         /\ UNCHANGED db
    ELSE /\ ret' = Call(op, arg, r.val)
         /\ fault' = "none"
         /\ db' = r.db
         /\ txn' = NoTxn

TxCreateRecord(media, outcome) ==
    /\ View(db, txn).sqlite_sequence < MaxSeq
    /\ \E ts \in now..MaxClock :
          /\ Written("create_record", media, create_record(View(db, txn), media, ts), outcome)
          /\ now' = ts
    /\ UNCHANGED <<issued, registry, files, app, ui, script>>

TxUpdateRecord(media, outcome) ==
    /\ Written("update_record", media, update_record(View(db, txn), media), outcome)
    /\ UNCHANGED <<now, issued, registry, files, app, ui, script>>

TxDeleteRecord(media_id, outcome) ==
    /\ Written("delete_record", media_id, delete_record(View(db, txn), media_id), outcome)
    /\ UNCHANGED <<now, issued, registry, files, app, ui, script>>

TxGetAllRecords ==
    /\ \E l \in get_all_records(View(db, txn)) :
          ret' = Call("get_all_records", None, l)
    /\ fault' = "none"
    /\ UNCHANGED <<db, now, issued, registry, files, app, txn, ui, script>>

NextCommit ==
    \/ \E m \in AppCreateInputs, o \in Outcomes : TxCreateRecord(m, o)
    \/ \E m \in AppUpdateInputs, i \in AppIdInputs, o \in Outcomes : TxUpdateRecord([m EXCEPT !.id = i], o)
    \/ \E i \in AppIdInputs, o \in Outcomes : TxDeleteRecord(i, o)
    \/ TxGetAllRecords

SpecCommit == Init /\ [][NextCommit]_vars

(* --------------------- the handlers of the main window ---------------- *)
\* MainApplication.__init__ on the store: _load_media shows an error box
\* when get_all_records raises
OpenWindow(outcome) ==
    /\ ui = NoWindow
    /\ IF outcome = "ok" THEN ui' \in load_media(NewWindow, db)
       ELSE ui' = NewWindow
    /\ ret' = Call("MainApplication", None, None)
    /\ fault' = IF outcome = "ok" THEN "none" ELSE "operational"
    /\ UNCHANGED <<db, now, issued, registry, files, app, txn, script>>

\* what follows the writing call r of a handler: the error box of the
\* handler when it raised, else _load_media
Reloaded(op, arg, r, outcome) ==
    IF r.val = Exception
    THEN /\ ret' = Call(op, arg, Exception)
         /\ fault' = "notnull"
         /\ UNCHANGED <<db, ui>>
    ELSE /\ ret' = Call(op, arg, r.val)
         /\ db' = r.db
         /\ IF outcome = "reload fails"
            THEN fault' = "operational" /\ ui' = ui
            ELSE fault' = "none" /\ ui' \in load_media(ui, r.db)

\* Save of the form Add Media opened: _save, then on_save of _add_media;
\* date_added is the reading of the clock, which stands still here
AddSave(form, outcome) ==
    /\ ui # NoWindow
    /\ LET media == save(form, None)
       IN IF media.t = "rejected"
          THEN /\ ret' = Call("_save", None, media)
               /\ fault' = "none"
               /\ UNCHANGED <<db, ui>>
          ELSE /\ db.sqlite_sequence < MaxItems
               /\ Reloaded("create_record", media, create_record(db, media, now), outcome)
    /\ UNCHANGED <<now, issued, registry, files, app, txn, script>>

\* Edit on the k-th row: get_record on the identifier the row shows, the
\* form filled from what it returns, the user's changes, then _save and
\* on_save of _edit_media
EditSave(k, edit, spin, outcome) ==
    /\ ui # NoWindow
    /\ k \in 1..Len(ui.rows)
    /\ LET stored == get_record(db, ui.rows[k].id)
           form == Edited(OpenForm(stored, spin), edit)
           media == save(form, stored)
       IN IF media.t = "rejected"
          THEN /\ ret' = Call("_save", None, media)
               /\ fault' = "none"
               /\ UNCHANGED <<db, ui>>
          ELSE Reloaded("update_record", media, update_record(db, media), outcome)
    /\ UNCHANGED <<now, issued, registry, files, app, txn, script>>

\* Delete on the k-th row, confirmed
DeleteRow(k, outcome) ==
    /\ ui # NoWindow
    /\ k \in 1..Len(ui.rows)
    /\ Reloaded("delete_record", ui.rows[k].id, delete_record(db, ui.rows[k].id), outcome)
    /\ UNCHANGED <<now, issued, registry, files, app, txn, script>>

\* typing in the search box (the trace on search_var), choosing a type,
\* choosing a status: each runs _apply_filters
SetSearch(text) ==
    /\ ui # NoWindow
    /\ ui' = apply_filters([ui EXCEPT !.search = text])
    /\ ret' = Call("_apply_filters", None, None)
    /\ fault' = "none"
    /\ UNCHANGED <<db, now, issued, registry, files, app, txn, script>>

SetFilterType(choice) ==
    /\ ui # NoWindow
    /\ ui' = apply_filters([ui EXCEPT !.filter_type = choice])
    /\ ret' = Call("_apply_filters", None, None)
    /\ fault' = "none"
    /\ UNCHANGED <<db, now, issued, registry, files, app, txn, script>>

SetFilterStatus(choice) ==
    /\ ui # NoWindow
    /\ ui' = apply_filters([ui EXCEPT !.filter_status = choice])
    /\ ret' = Call("_apply_filters", None, None)
    /\ fault' = "none"
    /\ UNCHANGED <<db, now, issued, registry, files, app, txn, script>>

\* View > Clear Filters
ClearFilters(outcome) ==
    /\ ui # NoWindow
    /\ IF outcome = "ok" THEN ui' \in load_media(clear_filters(ui), db)
       ELSE ui' = clear_filters(ui)
    /\ ret' = Call("_clear_filters", None, None)
    /\ fault' = IF outcome = "ok" THEN "none" ELSE "operational"
    /\ UNCHANGED <<db, now, issued, registry, files, app, txn, script>>

\* _on_closing
CloseWindow ==
    /\ ui # NoWindow
    /\ ui' = NoWindow
    /\ ret' = Call("_on_closing", None, None)
    /\ fault' = "none"
    /\ UNCHANGED <<db, now, issued, registry, files, app, txn, script>>

NextWindow ==
    \/ \E o \in UiOutcomes : OpenWindow(o)
    \/ \E f \in FormInputs, o \in UiOutcomes : AddSave(f, o)
    \/ \E k \in 1..MaxItems, e \in EditInputs, t \in SpinboxTexts, o \in UiOutcomes : EditSave(k, e, t, o)
    \/ \E k \in 1..MaxItems, o \in UiOutcomes : DeleteRow(k, o)
    \/ \E text \in SearchTexts : SetSearch(text)
    \/ \E c \in TypeChoices : SetFilterType(c)
    \/ \E c \in StatusChoices : SetFilterStatus(c)
    \/ \E o \in UiOutcomes : ClearFilters(o)
    \/ CloseWindow

SpecWindow == Init /\ [][NextWindow]_vars

(* ------------------ the filters over a list just loaded --------------- *)
\* a third form that passes: a title that matches a search only when
\* case is ignored, the type of the first, the status of the second
FilterForms ==
    {PlainForm, ZeroForm, [PlainForm EXCEPT !.title = <<"a", "B">>, !.status = Completed.s]}

\* the store after the forms of a sequence were saved one after the
\* other through Add Media
RECURSIVE Saved(_)
Saved(forms) ==
    IF forms = <<>> THEN EmptyDb
    ELSE create_record(Saved(SubSeq(forms, 1, Len(forms) - 1)),
                       save(forms[Len(forms)], None), 0).db

\* the main window as _load_media leaves it over up to MaxSeq items
\* saved through the form, before any filter was touched
InitFilters ==
    /\ \E n \in 0..MaxSeq : \E forms \in [1..n -> FilterForms] :
          /\ db = Saved(forms)
          /\ ui \in load_media(NewWindow, Saved(forms))
    /\ now = 0
    /\ ret = Call("init", None, None)
    /\ issued = <<>>
    /\ registry = EmptyUsers
    /\ files = NoFiles
    /\ app = Started
    /\ fault = "none"
    /\ txn = NoTxn
    /\ script = NotRun

NextFilters ==
    \/ \E text \in SearchTexts : SetSearch(text)
    \/ \E c \in TypeChoices : SetFilterType(c)
    \/ \E c \in StatusChoices : SetFilterStatus(c)

SpecFilters == InitFilters /\ [][NextFilters]_vars

(* ----------------------- the grouped report script -------------------- *)
\* the rows a Doctor table may hold, as the query reads them: Speciality
\* is TEXT and may be NULL (None) or padded, Doctor_Name is TEXT NOT NULL
DoctorInputs ==
    {[spec |-> sp, name |-> n] :
        sp \in {Str(<<"A">>), Str(<<"B">>), Str(<<" ", "B">>), None},
        n \in {Str(<<"a">>), Str(<<"A", " ", "b">>)}}

\* ORDER BY Speciality ASC, Doctor_Name ASC: NULL before any text, text
\* by code point
DoctorLE(a, b) ==
    IF a.spec = None \/ b.spec = None
    THEN a.spec = None /\ (b.spec # None \/ TextLE(a.name.s, b.name.s))
    ELSE IF a.spec = b.spec THEN TextLE(a.name.s, b.name.s)
    ELSE TextLE(a.spec.s, b.spec.s)

\* the SELECT over the rows of the table: its rows in the order asked for
Select(table) ==
    LET n == Len(table)
        perms == {p \in [1..n -> 1..n] : \A i, j \in 1..n : i # j => p[i] # p[j]}
        sorted == {p \in perms : \A i \in 1..(n - 1) : DoctorLE(table[p[i]], table[p[i + 1]])}
        p == CHOOSE q \in sorted : TRUE
    IN [i \in 1..n |-> table[p[i]]]

\* a line printed for a speciality; a doctor's line has the kind "doctor"
Header(text) == [kind |-> "header", text |-> text]

\* Ex1 is started on a table of up to MaxRows doctors. The script between
\* two statements: the table it reads, the rows fetched, the index of the
\* row the loop is at, current_speciality and the lines printed
InitReport ==
    /\ \E n \in 0..MaxRows : \E table \in [1..n -> DoctorInputs] :
          script = [t |-> "script", at |-> "connected", table |-> table, rows |-> <<>>,
                    i |-> 1, current_speciality |-> None, out |-> <<>>]
    /\ db = EmptyDb
    /\ now = 0
    /\ ret = Call("init", None, None)
    /\ issued = <<>>
    /\ registry = EmptyUsers
    /\ files = NoFiles
    /\ app = Started
    /\ fault = "none"
    /\ txn = NoTxn
    /\ ui = NoWindow

\* cursor.execute and fetchall
Fetch ==
    /\ script.at = "connected"
    /\ script' = [script EXCEPT !.at = "loop", !.rows = Select(script.table)]
    /\ UNCHANGED <<db, now, ret, issued, registry, files, app, fault, txn, ui>>

\* one pass of the for loop over the row at i
iterate(s) ==
    LET row == s.rows[s.i]
        spec == Str(Strip(row.spec.s))
        words == Split(Strip(row.name.s))
        printed == IF spec # s.current_speciality
                   THEN s.out \o <<Header(spec.s)>> ELSE s.out
    IN IF row.spec = None THEN [s EXCEPT !.at = "AttributeError"]
       ELSE IF words = <<>>
       THEN [s EXCEPT !.at = "IndexError", !.out = printed, !.current_speciality = spec]
       ELSE [s EXCEPT !.i = s.i + 1, !.current_speciality = spec,
                      !.out = printed \o <<[kind |-> "doctor", text |-> words[Len(words)]]>>]

Iterate ==
    /\ script.at = "loop"
    /\ script.i <= Len(script.rows)
    /\ script' = iterate(script)
    /\ UNCHANGED <<db, now, ret, issued, registry, files, app, fault, txn, ui>>

\* the loop is over: conn.close()
Finish ==
    /\ script.at = "loop"
    /\ script.i > Len(script.rows)
    /\ script' = [script EXCEPT !.at = "done"]
    /\ UNCHANGED <<db, now, ret, issued, registry, files, app, fault, txn, ui>>

NextReport == Fetch \/ Iterate \/ Finish

SpecReport == InitReport /\ [][NextReport]_vars

(* ------------- the user registry and the main application ------------- *)
\* UserManager lives on the selection screen; when create_user returns
\* True, save_user builds the screen anew with self.__init__
CreateUser(username) ==
    /\ app.screen = "selection"
    /\ LET r == create_user(registry, files, username)
       IN /\ registry' = r.registry
          /\ files' = r.files
          /\ ret' = Call("create_user", username, r.val)
          /\ fault' = r.fault
          /\ app' = IF r.val = Bool(TRUE) THEN UserSelectionScreenInit(app)
                    ELSE app
    /\ UNCHANGED <<db, now, issued, txn, ui, script>>

GetAllUsers ==
    /\ app.screen = "selection"
    /\ \E l \in get_all_users(registry) : ret' = Call("get_all_users", None, l)
    /\ fault' = IF registry = NoUsersTable THEN "operational" ELSE "none"
    /\ UNCHANGED <<db, now, issued, registry, files, app, txn, ui, script>>

\* _select_user on the button of a registered user closes the screen's
\* UserManager and starts MainApplication,
\* whose DatabaseModel connects to the user's store file; when the file
\* cannot be opened the constructor raises and the window stays blank
SelectUser(username) ==
    /\ app.screen = "selection"
    /\ registry # NoUsersTable
    /\ \E r \in registry.rows : FromSql(r.username) = username
    /\ IF CanOpen(AppDbName(username))
       THEN /\ files' = connect(files, AppDbName(username))
            /\ app' = DatabaseModelInit(user_manager_close(app), username)
            /\ ret' = Call("MainApplication", username, None)
            /\ fault' = "none"
       ELSE /\ app' = [user_manager_close(app) EXCEPT !.screen = "blank"]
            /\ ret' = Call("MainApplication", username, Exception)
            /\ fault' = "operational"
            /\ UNCHANGED files
    /\ UNCHANGED <<db, now, issued, registry, txn, ui, script>>

\* the operations of the main application's DatabaseModel, on its store
AppCreateRecord(media) ==
    /\ app.screen = "main"
    /\ LET name == AppDbName(app.user)
       IN IF HasTable(files[name])
          THEN /\ files[name].sqlite_sequence < MaxItems
               /\ \E ts \in now..MaxClock :
                     LET r == create_record(files[name], media, ts)
                     IN /\ files' = [files EXCEPT ![name] = r.db]
                        /\ ret' = Call("create_record", media, r.val)
                        /\ now' = IF r.val.t = "int" THEN ts ELSE now
                        /\ fault' = FaultOf(r.val)
          ELSE /\ ret' = Call("create_record", media, Exception)
               /\ fault' = "operational"
               /\ UNCHANGED <<files, now>>
    /\ UNCHANGED <<db, issued, registry, app, txn, ui, script>>

AppUpdateRecord(media) ==
    /\ app.screen = "main"
    /\ LET name == AppDbName(app.user)
       IN IF HasTable(files[name])
          THEN LET r == update_record(files[name], media)
               IN /\ files' = [files EXCEPT ![name] = r.db]
                  /\ ret' = Call("update_record", media, r.val)
                  /\ fault' = FaultOf(r.val)
          ELSE /\ ret' = Call("update_record", media, Exception)
               /\ fault' = "operational"
               /\ UNCHANGED files
    /\ UNCHANGED <<db, now, issued, registry, app, txn, ui, script>>

AppDeleteRecord(media_id) ==
    /\ app.screen = "main"
    /\ LET name == AppDbName(app.user)
       IN IF HasTable(files[name])
          THEN LET r == delete_record(files[name], media_id)
               IN /\ files' = [files EXCEPT ![name] = r.db]
                  /\ ret' = Call("delete_record", media_id, r.val)
                  /\ fault' = "none"
          ELSE /\ ret' = Call("delete_record", media_id, Exception)
               /\ fault' = "operational"
               /\ UNCHANGED files
    /\ UNCHANGED <<db, now, issued, registry, app, txn, ui, script>>

AppGetAllRecords ==
    /\ app.screen = "main"
    /\ LET name == AppDbName(app.user)
       IN IF HasTable(files[name])
          THEN /\ \E l \in get_all_records(files[name]) :
                     ret' = Call("get_all_records", None, l)
               /\ fault' = "none"
          ELSE /\ ret' = Call("get_all_records", None, Exception)
               /\ fault' = "operational"
    /\ UNCHANGED <<db, now, issued, registry, files, app, txn, ui, script>>

\* the statement of a call fails with a sqlite3.Error that is no
\* IntegrityError (disk I/O error, database is locked): every handler
\* re-raises it as an Exception, and nothing is written
StorageFault(op) ==
    /\ app.screen = IF op \in {"get_all_users", "create_user"} THEN "selection" ELSE "main"
    /\ ret' = Call(op, None, Exception)
    /\ fault' = "operational"
    /\ UNCHANGED <<db, now, issued, registry, files, app, txn, ui, script>>


\* closing the window: _on_closing once MainApplication has registered it,
\* the default handler of Tk (destroy) before
WindowClose ==
    /\ app.screen # "closed"
    /\ app' = IF app.screen = "main" THEN on_closing(app) ELSE destroy(app)
    /\ ret' = Call("WM_DELETE_WINDOW", None, None)
    /\ fault' = "none"
    /\ UNCHANGED <<db, now, issued, registry, files, txn, ui, script>>

\* File > Exit of the main application's menu
FileExit ==
    /\ app.screen = "main"
    /\ app' = on_closing(app)
    /\ ret' = Call("Exit", None, None)
    /\ fault' = "none"
    /\ UNCHANGED <<db, now, issued, registry, files, txn, ui, script>>

\* the program is started again: users.db and the store files are as the
\* last run left them
Relaunch ==
    /\ app.screen = "closed"
    /\ app' = Started
    /\ ret' = Call("main", None, None)
    /\ fault' = "none"
    /\ UNCHANGED <<db, now, issued, registry, files, txn, ui, script>>

NextUsers ==
    \/ \E u \in UsernameInputs : CreateUser(u)
    \/ GetAllUsers
    \/ \E u \in UsernameInputs : SelectUser(u)
    \/ \E m \in AppCreateInputs : AppCreateRecord(m)
    \/ \E m \in AppUpdateInputs, i \in AppIdInputs : AppUpdateRecord([m EXCEPT !.id = i])
    \/ \E i \in AppIdInputs : AppDeleteRecord(i)
    \/ AppGetAllRecords
    \/ \E op \in {"get_all_users", "create_user", "get_all_records", "create_record", "update_record", "delete_record"} : StorageFault(op)
    \/ WindowClose
    \/ FileExit
    \/ Relaunch

SpecUsers == Init /\ [][NextUsers]_vars

(* ---------------------------- first launch ---------------------------- *)
\* main.py is run before setup_database.py ever was: the UserManager's
\* connect has created users.db, which holds no table
InitFirstLaunch ==
    /\ db = EmptyDb
    /\ now = 0
    /\ ret = Call("init", None, None)
    /\ issued = <<>>
    /\ registry = NoUsersTable
    /\ files = NoFiles
    /\ app = Started
    /\ fault = "none"
    /\ txn = NoTxn
    /\ ui = NoWindow
    /\ script = NotRun

\* python setup_database.py, run by hand at any time
RunSetup ==
    /\ registry' = setup_users_database(registry)
    /\ ret' = Call("setup_users_database", None, None)
    /\ fault' = "none"
    /\ UNCHANGED <<db, now, issued, files, app, txn, ui, script>>

NextFirstLaunch ==
    \/ RunSetup
    \/ \E u \in UsernameInputs : CreateUser(u)
    \/ GetAllUsers
    \/ \E u \in UsernameInputs : SelectUser(u)
    \/ \E m \in AppCreateInputs : AppCreateRecord(m)
    \/ \E i \in AppIdInputs : AppDeleteRecord(i)
    \/ WindowClose
    \/ Relaunch

SpecFirstLaunch == InitFirstLaunch /\ [][NextFirstLaunch]_vars

(* --------------------------- claim helpers ---------------------------- *)
\* a stored item has this identifier
HasId(d, media_id) ==
    media_id.t = "int" /\ \E r \in d.rows : r.id = INTEGER(media_id.i)

RowOf(d, media_id) == CHOOSE r \in d.rows : r.id = INTEGER(media_id.i)

\* the nine mutable fields of two Media objects are equal
SameMutableFields(a, b) == \A c \in MutableFields : PyEq(a[c], b[c])

Elements(list) == {list.l[i] : i \in 1..Len(list.l)}

\* sub occurs in text as a contiguous run of characters
Contains(text, sub) ==
    \E i \in 1..(Len(text) - Len(sub) + 1) :
        SubSeq(text, i, i + Len(sub) - 1) = sub

LowerText(x) == [i \in 1..Len(x) |-> Lower(x[i])]

RECURSIVE SumOver(_, _)
SumOver(f, K) ==
    IF K = {} THEN 0
    ELSE LET k == CHOOSE x \in K : TRUE IN f[k] + SumOver(f, K \ {k})

(* -------------------------------- C1 ---------------------------------- *)
\* C1 as stated: for every Media the store accepts, create_record followed
\* by get_record on the returned id yields an item whose nine mutable fields
\* equal those of the input.
C1_RoundTripEveryAccepted ==
    [][(ret'.op = "create_record" /\ ret'.val.t = "int"
        /\ CreateRecord(ret'.arg))
       => LET got == get_record(db', ret'.val)
          IN got.t = "Media" /\ SameMutableFields(got, ret'.arg)]_vars

\* C1 amended: the same for every accepted Media whose rating is not NaN;
\* the store assigns only id (the returned one) and date_added (the current
\* second).
C1_RoundTripExceptNaN ==
    [][(ret'.op = "create_record" /\ ret'.val.t = "int"
        /\ ret'.arg.rating # NaN
        /\ CreateRecord(ret'.arg))
       => LET got == get_record(db', ret'.val)
          IN /\ got.t = "Media"
             /\ SameMutableFields(got, ret'.arg)
             /\ got.id = ret'.val
             /\ got.date_added = DateStr(now')]_vars

C1_Witness ==
    /\ ret.op = "create_record"
    /\ ret.val.t = "int"
    /\ HasId(db, ret.val)
    /\ RowOf(db, ret.val).genre = TEXT(<<"g">>)
    /\ RowOf(db, ret.val).director = TEXT(<<"d">>)

(* -------------------------------- C2 ---------------------------------- *)
\* C2: no two stored items share an identifier, and no identifier returned
\* by create_record was returned by an earlier create_record, whatever was
\* deleted in between.
C2_IdsUniqueNeverReused ==
    /\ \A r, q \in db.rows : r.id = q.id => r = q
    /\ \A i, j \in 1..Len(issued) : i # j => issued[i] # issued[j]
    /\ \A r \in db.rows : \E i \in 1..Len(issued) : r.id = INTEGER(issued[i])

\* the last call was the second successful create_record, made when the
\* only item so far, which had the highest identifier, was already deleted
C2_Witness ==
    /\ Len(issued) = 2
    /\ ret.op = "create_record"
    /\ ret.val = PyInt(issued[2])
    /\ ~ HasId(db, PyInt(issued[1]))

(* -------------------------------- C3 ---------------------------------- *)
\* C3: delete_record on a present id returns True and removes exactly that
\* item; a second delete_record of the same id right after returns False
\* and changes nothing.
C3_DeleteThenDeleteAgain ==
    [][(ret'.op = "delete_record" /\ HasId(db, ret'.arg)
        /\ DeleteRecord(ret'.arg))
       => /\ ret'.val = Bool(TRUE)
          /\ db'.rows = {r \in db.rows : r.id # INTEGER(ret'.arg.i)}
          /\ db'.rows # db.rows
          /\ delete_record(db', ret'.arg).val = Bool(FALSE)
          /\ delete_record(db', ret'.arg).db = db']_vars

\* a delete that removed one item and left another
C3_Witness ==
    /\ ret.op = "delete_record"
    /\ ret.val = Bool(TRUE)
    /\ db.rows # {}

(* -------------------------------- C4 ---------------------------------- *)
\* C4: update_record with an id that matches no stored item (None included)
\* returns False, raises nothing and leaves every stored item as it was.
C4_UpdateUnknownIdNoEffect ==
    [][(ret'.op = "update_record" /\ ~ HasId(db, ret'.arg.id)
        /\ UpdateRecord(ret'.arg))
       => ret'.val = Bool(FALSE) /\ db'.rows = db.rows]_vars

C4_Witness ==
    /\ ret.op = "update_record"
    /\ ret.arg.id = None
    /\ ret.arg.title = None
    /\ ret.val = Bool(FALSE)
    /\ db.rows # {}

(* -------------------------------- C5 ---------------------------------- *)
\* what C5 says of an update_record(m) that found the item i
C5_Replaced(m, i) ==
    /\ ret'.val = Bool(TRUE)
    /\ get_record(db', i).t = "Media"
    /\ SameMutableFields(get_record(db', i), m)
    /\ get_record(db', i).id = get_record(db, i).id
    /\ get_record(db', i).date_added = get_record(db, i).date_added
    /\ {r \in db'.rows : r.id # INTEGER(i.i)}
           = {r \in db.rows : r.id # INTEGER(i.i)}
    /\ Cardinality(db'.rows) = Cardinality(db.rows)

\* C5 as stated: update_record(item) with the id of a stored item returns
\* True, the nine mutable fields read back equal item's, id and date_added
\* of that item and every other item are unchanged.
C5_UpdateReplacesAny ==
    [][(ret'.op = "update_record" /\ HasId(db, ret'.arg.id)
        /\ UpdateRecord(ret'.arg))
       => C5_Replaced(ret'.arg, ret'.arg.id)]_vars

\* C5 amended: the same when item.title and item.media_type are not None
\* and item.rating is not NaN.
C5_UpdateReplacesStorable ==
    [][(/\ ret'.op = "update_record" /\ HasId(db, ret'.arg.id)
        /\ ret'.arg.title # None /\ ret'.arg.media_type # None
        /\ ret'.arg.rating # NaN
        /\ UpdateRecord(ret'.arg))
       => C5_Replaced(ret'.arg, ret'.arg.id)]_vars

\* an update that rewrote one of two stored items
C5_Witness ==
    /\ ret.op = "update_record"
    /\ ret.val = Bool(TRUE)
    /\ Cardinality(db.rows) = 2
    /\ RowOf(db, ret.arg.id).status = TEXT(<<"C">>)
    /\ RowOf(db, ret.arg.id).image_path = TEXT(<<"i">>)

(* -------------------------------- C6 ---------------------------------- *)
\* C6: search_by_title(s) returns exactly the stored items whose title
\* contains s as a contiguous substring, letter case ignored.
C6_SearchIsSubstringMatch ==
    ret.op = "search_by_title"
    => Elements(ret.val)
         = {row_to_media(r) :
               r \in {q \in db.rows :
                        Contains(LowerText(q.title.s), LowerText(ret.arg.s))}}

(* -------------------------------- C7 ---------------------------------- *)
\* C7: total_items equals the length of get_all_records(), and the values
\* of type_breakdown add up to total_items.
C7_TotalsAgree ==
    LET stats == get_statistics(db)
    IN /\ \A l \in get_all_records(db) : stats.total_items = PyInt(Len(l.l))
       /\ get_all_records(db) # {}
       /\ PyInt(SumOver(stats.type_breakdown, DOMAIN stats.type_breakdown))
            = stats.total_items

\* statistics read over two items of different types, after an update and
\* a delete
C7_Witness ==
    /\ ret.op = "get_statistics"
    /\ ret.val.total_items = PyInt(2)
    /\ Cardinality(DOMAIN ret.val.type_breakdown) = 2

(* -------------------------------- C8 ---------------------------------- *)
\* C8: status_breakdown maps every status some stored item has, None
\* included, to the number of items having it, and has no other key.
C8_StatusBreakdownCounts ==
    LET sb == get_statistics(db).status_breakdown
    IN /\ DOMAIN sb = {FromSql(r.status) : r \in db.rows}
       /\ \A r \in db.rows :
             sb[FromSql(r.status)]
               = Cardinality({q \in db.rows : q.status = r.status})

(* -------------------------------- C9 ---------------------------------- *)
\* C9: average_rating is 0 when no item has a non-null rating; otherwise it
\* is a tenth nearest to the mean of the non-null ratings (null ratings
\* count neither in the sum nor in the divisor, ratings of 0 do).
C9_AverageRating ==
    LET avg == get_statistics(db).average_rating
        rated == {r \in db.rows : r.rating # NULL}
        n == Cardinality(rated)
        total == SumOver([r \in rated |-> r.rating.r], rated)
        dist == IF n * Hundredths(avg) >= total
                THEN n * Hundredths(avg) - total
                ELSE total - n * Hundredths(avg)
    IN IF rated = {} THEN avg = PyInt(0)
       ELSE /\ IsNumber(avg)
            /\ Hundredths(avg) % 10 = 0
            /\ 2 * dist <= 10 * n

\* an item without rating next to a rated one
C9_Witness ==
    /\ ret.op = "get_statistics"
    /\ \E r, q \in db.rows : r.rating = NULL /\ q.rating = REAL(725)
    /\ ret.val.average_rating = Float(720)

(* -------------------------------- C10 --------------------------------- *)
\* C10: get_record returns the stored item with that identifier when there
\* is one and None when there is none, and leaves the store as it was.
C10_GetRecord ==
    [][(ret'.op = "get_record" /\ GetRecord(ret'.arg))
       => /\ db' = db
          /\ IF HasId(db, ret'.arg)
             THEN /\ ret'.val.t = "Media"
                  /\ ret'.val.id = ret'.arg
                  /\ ret'.val = row_to_media(RowOf(db, ret'.arg))
             ELSE ret'.val = None]_vars

\* get_record on the identifier of a deleted item, other items present
C10_Witness ==
    /\ ret.op = "get_record"
    /\ ret.val = None
    /\ ret.arg.t = "int"
    /\ ret.arg.i <= db.sqlite_sequence
    /\ db.rows # {}

(* ------------------------------- C11 ---------------------------------- *)
\* the text of a list element's date_added, as the second it names
DateOf(m) == m.date_added.n

\* C11: get_all_records returns every stored item exactly once, in
\* non-increasing date_added order, and the empty list when nothing is stored
C11_AllRecordsNewestFirst ==
    ret.op = "get_all_records" =>
        LET l == ret.val.l
        IN /\ Len(l) = Cardinality(db.rows)
           /\ Elements(ret.val) = {row_to_media(r) : r \in db.rows}
           /\ \A i, j \in 1..Len(l) : i < j => DateOf(l[i]) >= DateOf(l[j])
           /\ db.rows = {} => ret.val = List(<<>>)

\* get_all_records has returned two items created in different seconds
C11_Witness ==
    /\ ret.op = "get_all_records"
    /\ Len(ret.val.l) = 2
    /\ DateOf(ret.val.l[1]) # DateOf(ret.val.l[2])

(* ------------------------------- C12 ---------------------------------- *)
\* list is in ascending title order and holds exactly the items of S, once
AscendingByTitleOver(list, S) ==
    LET l == list.l
    IN /\ Len(l) = Cardinality(S)
       /\ Elements(list) = S
       /\ \A i, j \in 1..Len(l) : i < j => TextLE(l[i].title.s, l[j].title.s)

\* C12: filter_by_type(t) returns exactly the stored items whose media_type
\* equals t, and filter_by_status(s) exactly those whose status equals s,
\* each ordered by title ascending
C12_FiltersExactAndOrdered ==
    LET stored == {row_to_media(r) : r \in db.rows}
    IN /\ ret.op = "filter_by_type" =>
              AscendingByTitleOver(ret.val, {m \in stored : m.media_type = ret.arg})
       /\ ret.op = "filter_by_status" =>
              AscendingByTitleOver(ret.val, {m \in stored : m.status = ret.arg})

\* filter_by_status has returned one of two stored items and left out the
\* other, which has another status
C12_Witness ==
    /\ ret.op = "filter_by_status"
    /\ Cardinality(db.rows) = 2
    /\ Len(ret.val.l) = 1
    /\ \E r \in db.rows : r.status # Bind(ret.arg)

(* ------------------------------- C13 ---------------------------------- *)
\* how many times username occurs in list
Count(list, username) ==
    Cardinality({i \in 1..Len(list.l) : list.l[i] = username})

Registered(reg, username) ==
    \E l \in get_all_users(reg) : Count(l, username) > 0

\* get_all_users holds username exactly once, and no username twice
OnceAndNoDuplicates(reg, username) ==
    \A l \in get_all_users(reg) :
        /\ Count(l, username) = 1
        /\ \A i, j \in 1..Len(l.l) : i # j => l.l[i] # l.l[j]

\* create_user(u) on a username not registered yet returns True, the call
\* right after it returns False, and after either get_all_users holds u once
TrueThenFalse(u) ==
    /\ ~Registered(registry, u) =>
           ret'.val = Bool(TRUE) /\ OnceAndNoDuplicates(registry', u)
    /\ ret = Call("create_user", u, Bool(TRUE)) =>
           ret'.val = Bool(FALSE) /\ OnceAndNoDuplicates(registry', u)

\* C13 as stated: for every username u, create_user(u) called twice in
\* succession returns True and then False without raising, and afterwards
\* get_all_users() holds u exactly once and no username twice
C13_EveryUsernameTrueThenFalse ==
    [][\A u \in UsernameInputs :
          ret'.op = "create_user" /\ CreateUser(u) => TrueThenFalse(u)]_vars

\* C13 amended: the same for every username that is a str and whose store
\* file media_library_<u>.db can be created
C13_UsableUsernameTrueThenFalse ==
    [][\A u \in UsernameInputs :
          ret'.op = "create_user" /\ CreateUser(u)
          /\ u.t = "str" /\ CanOpen(SetupDbName(u)) => TrueThenFalse(u)]_vars

\* the second of two create_user calls in succession with one username has
\* returned False
C13_Witness ==
    /\ ret.op = "create_user"
    /\ ret.val = Bool(FALSE)
    /\ fault = "unique"
    /\ Cardinality(registry.rows) = 2

(* ------------------------------- C14 ---------------------------------- *)
\* what get_all_records() of a DatabaseModel opened on the store file of
\* username may answer, given the files on disk
OpenedStoreAnswers(fs, username) ==
    LET name == AppDbName(username)
    IN IF ~CanOpen(name) THEN {Exception}
       ELSE IF HasTable(connect(fs, name)[name])
            THEN get_all_records(connect(fs, name)[name])
       ELSE {Exception}

\* C14: immediately after create_user(u) returns True, a store opened for
\* u answers get_all_records() with the empty list and no error
C14_NewUserStoreEmpty ==
    [][\A u \in UsernameInputs :
          ret'.op = "create_user" /\ CreateUser(u) /\ ret'.val = Bool(TRUE)
          => OpenedStoreAnswers(files', u) = {List(<<>>)}]_vars

\* create_user has returned True while the store of another user holds an
\* item
C14_Witness ==
    /\ ret.op = "create_user"
    /\ ret.val = Bool(TRUE)
    /\ \E name \in DOMAIN files : files[name].rows # {}

(* ------------------------------- C15 ---------------------------------- *)
\* C15: create_user returns False if and only if the INSERT violated the
\* uniqueness of the username; every other storage fault, another
\* constraint violation (an absent username) included, is raised
C15_FalseOnlyForDuplicate ==
    ret.op = "create_user" =>
        /\ ret.val = Bool(FALSE) <=> fault = "unique"
        /\ fault \notin {"none", "unique"} => ret.val = Exception

(* ------------------------------- C16 ---------------------------------- *)
\* the usernames get_all_users lists
Usernames(reg) == UNION {Elements(l) : l \in get_all_users(reg)}

\* C16: a registered username stays registered, and the registered set
\* changes only by a create_user that succeeds (returns True), which adds
\* exactly its username
C16_OnlySuccessfulCreateUserRegisters ==
    [][/\ Usernames(registry) \subseteq Usernames(registry')
       /\ Usernames(registry') # Usernames(registry) =>
              /\ ret'.op = "create_user"
              /\ ret'.val = Bool(TRUE)
              /\ Usernames(registry') = Usernames(registry) \cup {ret'.arg}]_vars

(* ------------------------------- C17 ---------------------------------- *)
\* every file but the one named is as it was, and so is the registry
OthersUntouched(name) ==
    /\ registry' = registry
    /\ DOMAIN files' = DOMAIN files
    /\ \A other \in DOMAIN files : other # name => files'[other] = files[other]

\* C17: create_user and the main application address a username's store
\* by the same file name, distinct usernames address distinct stores, and
\* a create, update or delete on one store leaves every other store and
\* the registry unchanged
C17_StoresIsolated ==
    [][/\ \A u \in UsernameInputs : SetupDbName(u) = AppDbName(u)
       /\ \A u, v \in UsernameInputs : u # v => AppDbName(u) # AppDbName(v)
       /\ app'.screen = "main" => HasTable(files'[AppDbName(app'.user)])
       /\ ret'.op \in {"create_record", "update_record", "delete_record"} =>
              OthersUntouched(AppDbName(app.user))]_vars

\* create_record has stored an item in one store while another store holds
\* an item as well
C17_Witness ==
    /\ ret.op = "create_record"
    /\ ret.val.t = "int"
    /\ \E name \in DOMAIN files :
          name # AppDbName(app.user) /\ files[name].rows # {}

(* ------------------------------- C18 ---------------------------------- *)
\* the step has stored m as one new item and returned its identifier
Persisted(m) ==
    /\ ret'.val.t = "int"
    /\ ~HasId(db, ret'.val)
    /\ Cardinality(db'.rows) = Cardinality(db.rows) + 1
    /\ get_record(db', ret'.val) # None
    /\ SameMutableFields(get_record(db', ret'.val), m)

C19_FailedStatementRaises ==
    fault # "none" =>
        \/ ret.val = Exception
        \/ ret = Call("create_user", ret.arg, Bool(FALSE)) /\ fault = "unique"

(* ------------------------------- C20 ---------------------------------- *)
\* C20: a DatabaseModel opens exactly one connection, at construction, and
\* no other; on every way out of the main application (closing the window,
\* File > Exit) the connection is closed before the window is destroyed
C20_OneConnectionClosedOnExit ==
    /\ app.opened <= 1
    /\ app.screen = "main" => app.opened = 1 /\ app.connection = "open"
    /\ app.screen = "closed" /\ app.opened = 1 =>
           app.at_destroy = "closed" /\ app.connection = "closed"

\* the main application has been left by File > Exit after its store was
\* written to
C20_Witness ==
    /\ ret.op = "Exit"
    /\ app.screen = "closed"
    /\ app.opened = 1
    /\ files[AppDbName(app.user)].rows # {}

(* ------------------------------- C25 ---------------------------------- *)
\* C25: after any sequence of create_user calls, those that raise a storage
\* error included, every username get_all_users() lists has a provisioned
\* store (its file exists and holds the Media table); a create_user that
\* raises leaves its username unregistered
C25_RegisteredHasStore ==
    /\ \A u \in Usernames(registry) :
          /\ CanOpen(AppDbName(u))
          /\ AppDbName(u) \in DOMAIN files
          /\ HasTable(files[AppDbName(u)])
    /\ ret.op = "create_user" /\ ret.val = Exception =>
          ret.arg \notin Usernames(registry)

(* ------------------------------- C27 ---------------------------------- *)
\* C27: every User Registry connection the selection screen has opened is
\* closed by the time the main application is started, also when users
\* were created before one was selected; at most one is open at any time
C27_RegistryConnectionsClosed ==
    /\ app.managers <= 1
    /\ app.screen \in {"main", "blank"} => app.managers = 0

(* ------------------------------- C28 ---------------------------------- *)
\* C28: on a first launch, when setup_database.py has never initialised the
\* registry, get_all_users() answers the empty list without an error and
\* create_user(u) succeeds
C28_FirstLaunchUsable ==
    registry = NoUsersTable =>
        /\ ret.op = "get_all_users" => ret.val = List(<<>>)
        /\ ret.op = "create_user" /\ ret.arg \in {Alice, AliceUpper} =>
              ret.val = Bool(TRUE)

(* ------------------------------- C26 ---------------------------------- *)
\* the items a get_all_records() on the connection returns, which are also
\* the items its next successful commit persists
Observed(d, t) == View(d, t).rows

\* C26: when create_record, update_record or delete_record raises a
\* storage error, whether the statement or the commit failed, the stored
\* items later calls on the instance observe and persist are those from
\* before the failed call
C26_FailedWriteLeavesNoTrace ==
    [][ret'.op \in {"create_record", "update_record", "delete_record"}
       /\ ret'.val = Exception
       => Observed(db', txn') = Observed(db, txn)]_vars

(* ------------------------- claims on the main window ------------------ *)
\* what C21 requires of a Media handed to the store
C21_Valid(m) ==
    /\ m.title.t = "str" /\ m.title.s # <<>> /\ m.title.s = Strip(m.title.s)
    /\ m.media_type.t = "str" /\ m.media_type.s # <<>>
    /\ m.status.t = "str" /\ m.status.s # <<>>
    /\ \/ m.rating = None
       \/ IsNumber(m.rating) /\ Hundredths(m.rating) \in 0..1000

\* a form Save must turn down: a required field missing, a rating that is
\* no number, a rating outside 0..10
C21_Deficient(f) ==
    \/ Strip(f.title) = <<>> \/ f.media_type = <<>> \/ f.status = <<>>
    \/ /\ f.rating # <<>>
       /\ LET rating == ParseFloat(f.rating)
          IN \/ rating = ValueError
             \/ ~IsNumber(rating)
             \/ Hundredths(rating) \notin 0..1000

\* C21: every Media the forms hand to create_record or update_record has
\* a non-empty stripped title, a non-empty media type, a non-empty status
\* and a rating that is None or within 0..10; and when Save finds a
\* required field missing or a rating that is no number or out of range,
\* neither operation is called and the store is left as it was.
C21_OnlyValidatedMediaReachTheStore ==
    [][/\ ret'.op \in {"create_record", "update_record"} => C21_Valid(ret'.arg)
       /\ ret'.op \in {"create_record", "update_record"} \/ db' # db
          => /\ \A f \in FormInputs, o \in UiOutcomes :
                  ~(C21_Deficient(f) /\ AddSave(f, o))
             /\ ui # NoWindow =>
                  \A k \in 1..Len(ui.rows), t \in SpinboxTexts :
                      LET form == OpenForm(get_record(db, ui.rows[k].id), t)
                      IN \A e \in EditInputs :
                            C21_Deficient(Edited(form, e))
                            => \A o \in UiOutcomes : ~EditSave(k, e, t, o)]_vars

\* a title that had to be stripped was saved, and a form with a rating
\* out of range was turned down afterwards
C21_Witness ==
    /\ ret.op = "_save" /\ ret.val = Rejected("Rating must be between 0 and 10")
    /\ \E r \in db.rows : r.title = TEXT(<<"A", "b">>)

\* a text without its leading and trailing spaces
C22_Trimmed(x) ==
    LET inked == {i \in 1..Len(x) : x[i] # " "}
    IN IF inked = {} THEN <<>>
       ELSE SubSeq(x, CHOOSE i \in inked : \A j \in inked : i <= j,
                      CHOOSE i \in inked : \A j \in inked : j <= i)

\* the item m satisfies every criterion the controls of w show
C22_Satisfies(m, w) ==
    /\ \/ C22_Trimmed(w.search) = <<>>
       \/ Contains(LowerText(m.title.s), LowerText(C22_Trimmed(w.search)))
    /\ w.filter_type = All \/ m.media_type = Str(w.filter_type)
    /\ w.filter_status = All \/ m.status = Str(w.filter_status)

\* C22: after _apply_filters the rows are the sub-sequence of
\* current_media_list, in the same order, of exactly the items that satisfy
\* all active criteria (lower-cased title contains the trimmed, lower-cased
\* search text; type equals the type filter unless it is All; status
\* equals the status filter unless it is All); the order in which the
\* criteria are applied makes no difference; the store is not touched.
C22_FiltersSelectInOrder ==
    [][ret'.op = "_apply_filters" =>
         LET w == ui'
             l == w.current_media_list.l
         IN /\ w.rows = SelectSeq(l, LAMBDA m : C22_Satisfies(m, w))
            /\ w.rows = by_status(by_search(by_type(l, w), w), w)
            /\ w.rows = by_type(by_status(by_search(l, w), w), w)
            /\ w.rows = by_search(by_status(by_type(l, w), w), w)
            /\ w.rows = by_type(by_search(by_status(l, w), w), w)
            /\ w.rows = by_search(by_type(by_status(l, w), w), w)
            /\ w.current_media_list = ui.current_media_list
            /\ db' = db /\ txn' = txn]_vars

\* a search text that needs trimming and lower-casing is active and
\* leaves one row of a list of two, the second one
C22_Witness ==
    /\ ui # NoWindow
    /\ ret.op = "_apply_filters"
    /\ ui.search = <<"A", " ">>
    /\ Len(ui.current_media_list.l) = 2
    /\ ui.rows = <<ui.current_media_list.l[2]>>

\* the operations of the store the main window writes with
C23_Writes == {"create_record", "update_record", "delete_record"}

C24_RowsMatchControls ==
    ui # NoWindow =>
        ui.rows = SelectSeq(ui.current_media_list.l, LAMBDA m : C22_Satisfies(m, ui))

\* C29: opening the edit form on a stored item and pressing Save without
\* a change calls update_record with the item's id and its nine fields
\* as they are stored, for every item that was saved through the form
\* (among them an item rated 0 and one without a release date), so that
\* the store is left as it was.
C29_SaveUnchangedChangesNothing ==
    [][\A k \in 1..MaxItems, t \in SpinboxTexts, o \in UiOutcomes :
         /\ EditSave(k, "nothing", t, o)
         /\ get_record(db, ui.rows[k].id) # None
         => /\ ret'.op = "update_record"
            /\ ret'.arg.id = ui.rows[k].id
            /\ SameMutableFields(ret'.arg, get_record(db, ui.rows[k].id))
            /\ db' = db]_vars

(* ------------------------ claims on the report script ----------------- *)
\* the position in the output of the line of the j-th doctor
C30_DoctorAt(out, j) ==
    CHOOSE i \in 1..Len(out) :
        /\ out[i].kind = "doctor"
        /\ Cardinality({k \in 1..i : out[k].kind = "doctor"}) = j

\* the last header printed before position i
C30_HeaderBefore(out, i) ==
    LET heads == {k \in 1..i : out[k].kind = "header"}
    IN out[CHOOSE k \in heads : \A h \in heads : h <= k].text

\* C30: the script ends without an error and, over the rows sorted by
\* speciality then name, each distinct stripped speciality is printed as a
\* header exactly once, every doctor's line comes after the header of the
\* doctor's own speciality and before the next header, and there are as
\* many doctor lines as rows.
C30_GroupedReport ==
    /\ script # NotRun => script.at \in {"connected", "loop", "done"}
    /\ script # NotRun /\ script.at = "done" =>
         LET out == script.out
             rows == script.rows
             doctors == {i \in 1..Len(out) : out[i].kind = "doctor"}
         IN /\ Cardinality(doctors) = Len(rows)
            /\ \A j \in 1..Len(rows) :
                 Cardinality({i \in 1..Len(out) : out[i] = Header(C22_Trimmed(rows[j].spec.s))}) = 1
            /\ \A j \in 1..Len(rows) :
                 /\ \E k \in 1..C30_DoctorAt(out, j) : out[k].kind = "header"
                 /\ C30_HeaderBefore(out, C30_DoctorAt(out, j)) = C22_Trimmed(rows[j].spec.s)

====
